---------------------------- MODULE Spec2Model ----------------------------
(***************************************************************************)
(* Elliptic-curve arithmetic over a prime field, ElGamal on top of it and  *)
(* the Koblitz text encoding, as implemented in ECC.py.                    *)
(*                                                                         *)
(* A Coord is the pair <<x, y>> (a Python namedtuple is a tuple).  A call  *)
(* that can raise is modelled by an outcome record [err, val]: err is      *)
(* "none" when the call returns val, and the exception's text otherwise.   *)
(* Every behaviour constructs its objects (Init), then applies operations  *)
(* to inputs drawn from bounded sets; op/args/res/err record the last      *)
(* call, its arguments, its result and whether it raised.                  *)
(***************************************************************************)
EXTENDS Integers, Sequences, FiniteSets, TLC

VARIABLES ec, eg, op, args, res, err

vars == <<ec, eg, op, args, res, err>>

(***************************************************************************)
(* Bounds of the model                                                     *)
(***************************************************************************)
\* field primes of the curves: the primes in 3..MaxQ
MaxQ == 10
\* scalars handed to mul: 0..MaxK
MaxK == 13
\* operands handed to inv: -MaxN..MaxN
MaxN == 24
\* private keys: 1..min(n-1, MaxPriv); nonces: 0..MaxR
MaxPriv == 6
MaxR == 4
\* field primes of the Koblitz curves: the primes in MinKoblitzQ..MaxKoblitzQ
MinKoblitzQ == 41
MaxKoblitzQ == 43
\* code points handed to the Koblitz encoding: 0..MaxM
MaxM == 1

(***************************************************************************)
(* Outcomes of calls that may raise                                        *)
(***************************************************************************)
Ok(v) == [err |-> "none", val |-> v]

Raise(e) == [err |-> e, val |-> <<>>]

(***************************************************************************)
(* Modular arithmetic                                                      *)
(***************************************************************************)
RECURSIVE egcdLoop(_, _, _, _, _, _)
egcdLoop(a, b, s0, s1, t0, t1) ==
    IF b > 0
    THEN LET q == a \div b
             r == a % b
         IN  egcdLoop(b, r, s1, s0 - q * s1, t1, t0 - q * t1)
    ELSE <<s0, t0, a>>

egcd(a, b) == egcdLoop(a, b, 1, 0, 0, 1)

inv(n, q) == egcd(n, q)[1] % q

RECURSIVE sqrtScan(_, _, _)
sqrtScan(n, q, i) ==
    IF i >= q THEN Raise("not found")
    ELSE IF (i * i) % q = n THEN Ok(<<i, q - i>>)
    ELSE sqrtScan(n, q, i + 1)

sqrt(n, q) == sqrtScan(n, q, 1)

(***************************************************************************)
(* class EC                                                                *)
(***************************************************************************)
zero == <<0, 0>>

IsPrime(q) == q > 1 /\ \A d \in 2..(q - 1) : q % d # 0

EC(a, b, q) == [a |-> a, b |-> b, q |-> q]

\* the curves EC.__init__ accepts (0 < a < q, 0 < b < q, q > 2) over the primes in lo..hi
CurvesOver(lo, hi) ==
    UNION {{EC(a, b, q) : a \in 1..(q - 1), b \in 1..(q - 1)} :
           q \in {n \in lo..hi : n > 2 /\ IsPrime(n)}}

is_valid(c, p) ==
    IF p = zero THEN TRUE
    ELSE LET l == (p[2] ^ 2) % c.q
             r == ((p[1] ^ 3) + c.a * p[1] + c.b) % c.q
         IN  l = r

\* the Coord values of the data model that pass is_valid: 0 <= x, y < q, and zero
Points(c) == {p \in (0..(c.q - 1)) \X (0..(c.q - 1)) : is_valid(c, p)}

at(c, x) ==
    LET ysq == (x ^ 3 + c.a * x + c.b) % c.q
        rt  == sqrt(ysq, c.q)
    IN  IF rt.err # "none" THEN rt
        ELSE Ok(<< <<x, rt.val[1]>>, <<x, rt.val[2]>> >>)

neg(c, p) == <<p[1], (-p[2]) % c.q>>

\* add with the "or p1.y == 0" test left out: a point of order two is doubled
add_without_y0(c, p1, p2) ==
    IF p1 = zero THEN p2
    ELSE IF p2 = zero THEN p1
    ELSE IF p1[1] = p2[1] /\ p1[2] # p2[2] THEN zero
    ELSE LET l == IF p1[1] = p2[1]
                  THEN ((3 * p1[1] * p1[1] + c.a) * inv(2 * p1[2], c.q)) % c.q
                  ELSE ((p2[2] - p1[2]) * inv(p2[1] - p1[1], c.q)) % c.q
             x == (l * l - p1[1] - p2[1]) % c.q
             y == (l * (p1[1] - x) - p1[2]) % c.q
         IN  <<x, y>>

\* add with the tangent slope 3x^2 / 2y: the curve's coefficient a left out
add_tangent_without_a(c, p1, p2) ==
    IF p1 = zero THEN p2
    ELSE IF p2 = zero THEN p1
    ELSE IF p1[1] = p2[1] /\ (p1[2] # p2[2] \/ p1[2] = 0) THEN zero
    ELSE LET l == IF p1[1] = p2[1]
                  THEN ((3 * p1[1] * p1[1]) * inv(2 * p1[2], c.q)) % c.q
                  ELSE ((p2[2] - p1[2]) * inv(p2[1] - p1[1], c.q)) % c.q
             x == (l * l - p1[1] - p2[1]) % c.q
             y == (l * (p1[1] - x) - p1[2]) % c.q
         IN  <<x, y>>

\* add with x = l^2 - 2*p1.x, the doubling's formula used for a chord as well
add_x_of_doubling(c, p1, p2) ==
    IF p1 = zero THEN p2
    ELSE IF p2 = zero THEN p1
    ELSE IF p1[1] = p2[1] /\ (p1[2] # p2[2] \/ p1[2] = 0) THEN zero
    ELSE LET l == IF p1[1] = p2[1]
                  THEN ((3 * p1[1] * p1[1] + c.a) * inv(2 * p1[2], c.q)) % c.q
                  ELSE ((p2[2] - p1[2]) * inv(p2[1] - p1[1], c.q)) % c.q
             x == (l * l - p1[1] - p1[1]) % c.q
             y == (l * (p1[1] - x) - p1[2]) % c.q
         IN  <<x, y>>

add(c, p1, p2) ==
    IF p1 = zero THEN p2
    ELSE IF p2 = zero THEN p1
    ELSE IF p1[1] = p2[1] /\ (p1[2] # p2[2] \/ p1[2] = 0) THEN zero
    ELSE LET l == IF p1[1] = p2[1]
                  THEN ((3 * p1[1] * p1[1] + c.a) * inv(2 * p1[2], c.q)) % c.q
                  ELSE ((p2[2] - p1[2]) * inv(p2[1] - p1[1], c.q)) % c.q
             x == (l * l - p1[1] - p2[1]) % c.q
             y == (l * (p1[1] - x) - p1[2]) % c.q
         IN  <<x, y>>

RECURSIVE mulLoop(_, _, _, _)
mulLoop(c, r, m2, n) ==
    IF 0 < n
    THEN mulLoop(c, IF n % 2 = 1 THEN add(c, r, m2) ELSE r, add(c, m2, m2), n \div 2)
    ELSE r

\* mul whose loop stops at "while 1 < n": the top bit of n is never added
RECURSIVE mulLoopStoppingEarly(_, _, _, _)
mulLoopStoppingEarly(c, r, m2, n) ==
    IF 1 < n
    THEN mulLoopStoppingEarly(c, IF n % 2 = 1 THEN add(c, r, m2) ELSE r,
                              add(c, m2, m2), n \div 2)
    ELSE r

mul_stopping_early(c, p, n) == mulLoopStoppingEarly(c, zero, p, n)

mul(c, p, n) == mulLoop(c, zero, p, n)

\* [ref] O(n) add: the reference loop kept beside mul's double-and-add
RECURSIVE refmul(_, _, _)
refmul(c, p, n) == IF n <= 0 THEN zero ELSE add(c, refmul(c, p, n - 1), p)

RECURSIVE orderScan(_, _, _)
orderScan(c, g, i) ==
    IF i > c.q THEN Raise("Invalid order")
    ELSE IF mul(c, g, i) = zero THEN Ok(i)
    ELSE orderScan(c, g, i + 1)

\* order scanning range(1, q): the last candidate, q itself, is never tried
RECURSIVE orderScanBelowQ(_, _, _)
orderScanBelowQ(c, g, i) ==
    IF i >= c.q THEN Raise("Invalid order")
    ELSE IF mul(c, g, i) = zero THEN Ok(i)
    ELSE orderScanBelowQ(c, g, i + 1)

order_below_q(c, g) == orderScanBelowQ(c, g, 1)

order(c, g) == orderScan(c, g, 1)

(***************************************************************************)
(* class ElGamal                                                           *)
(***************************************************************************)
\* ElGamal.__init__: the cipher object, or the exception order(g) raised
ElGamal(c, g) ==
    LET o == order(c, g)
    IN  IF o.err # "none" THEN o ELSE Ok([g |-> g, n |-> o.val])

NoCipher == [g |-> zero, n |-> 0]

gen(c, e, priv) == mul(c, e.g, priv)

enc2(c, e, plain, pub, r) == <<mul(c, e.g, r), add(c, plain, mul(c, pub, r))>>

\* dec adding the mask a second time: the neg left out
dec_without_neg(c, e, cipher, priv) == add(c, cipher[2], mul(c, cipher[1], priv))

dec(c, e, cipher, priv) == add(c, cipher[2], neg(c, mul(c, cipher[1], priv)))

(***************************************************************************)
(* Koblitz encoding                                                        *)
(***************************************************************************)
max_bits == 20

\* the loop of map_to_point_koblitz: the bare except swallows at's exception,
\* and falling off the loop returns None
RECURSIVE koblitzScan(_, _, _)
koblitzScan(m, c, bit) ==
    IF bit >= max_bits THEN Raise("None")
    ELSE LET x == (m * max_bits + bit) % c.q
             r == at(c, x)
         IN  IF r.err = "none" THEN Ok(r.val[1]) ELSE koblitzScan(m, c, bit + 1)

map_to_point_koblitz(m, c) == koblitzScan(m, c, 1)

\* Python 3 round() of the quotient n/d of naturals: to nearest, ties to even
round(n, d) ==
    LET f  == n \div d
        r2 == 2 * (n % d)
    IN  IF r2 < d THEN f
        ELSE IF r2 > d THEN f + 1
        ELSE IF f % 2 = 0 THEN f ELSE f + 1

\* map_to_chars on one point: the code of the character it appends
map_to_chars(x) == round(x, max_bits)

(***************************************************************************)
(* The two singularity checks of the form                                  *)
(***************************************************************************)
is_valid_eg(c) == (4 * (c.a ^ 3) + 27 * (c.b ^ 2)) % c.q # 0

\* % binds tighter than +: the test reads 4*a^3 + ((27*b^2) % q) != 0
validate_coffs(c) ==
    IF ~(4 * (c.a ^ 3) + ((27 * (c.b ^ 2)) % c.q) # 0) THEN "False" ELSE "all right"

(***************************************************************************)
(* Construction                                                            *)
(***************************************************************************)
Fresh ==
    /\ op = "init"
    /\ args = <<>>
    /\ res = <<>>
    /\ err = "none"

\* an EC has been constructed over a small prime
Init ==
    /\ ec \in CurvesOver(3, MaxQ)
    /\ eg = NoCipher
    /\ Fresh

\* encrypt_message / decrypt_message: a non-singular EC and an ElGamal on a
\* base point whose order() returned
InitElGamal ==
    /\ ec \in {c \in CurvesOver(3, MaxQ) : is_valid_eg(c)}
    /\ eg \in {ElGamal(ec, g).val : g \in {h \in Points(ec) \ {zero} : ElGamal(ec, h).err = "none"}}
    /\ Fresh

\* an EC large enough to hold Koblitz windows
InitKoblitz ==
    /\ ec \in CurvesOver(MinKoblitzQ, MaxKoblitzQ)
    /\ eg = NoCipher
    /\ Fresh

(***************************************************************************)
(* Operations: one call each, on the objects constructed by Init           *)
(***************************************************************************)
Call(name, a, outcome) ==
    /\ op' = name
    /\ args' = a
    /\ res' = outcome.val
    /\ err' = outcome.err
    /\ UNCHANGED <<ec, eg>>

Inv ==
    /\ op = "init"
    /\ \E n \in (-MaxN)..MaxN, q \in 2..MaxQ : Call("inv", <<n, q>>, Ok(inv(n, q)))

Sqrt ==
    /\ op = "init"
    /\ \E n \in 0..(ec.q - 1) : Call("sqrt", <<n, ec.q>>, sqrt(n, ec.q))

At ==
    /\ op = "init"
    /\ \E x \in 0..(ec.q - 1) : Call("at", <<x>>, at(ec, x))

Neg ==
    /\ op = "init"
    /\ \E p \in Points(ec) : Call("neg", <<p>>, Ok(neg(ec, p)))

Add ==
    /\ op = "init"
    /\ \E p1, p2 \in Points(ec) : Call("add", <<p1, p2>>, Ok(add(ec, p1, p2)))

\* a further point added to the sum just computed: add(add(p1, p2), p3)
AddMore ==
    /\ op = "add"
    /\ \E p3 \in Points(ec) : Call("add3", Append(args, p3), Ok(add(ec, res, p3)))

Mul ==
    /\ op = "init"
    /\ \E p \in Points(ec), k \in 0..MaxK : Call("mul", <<p, k>>, Ok(mul(ec, p, k)))

Order ==
    /\ op = "init"
    /\ \E g \in Points(ec) \ {zero} : Call("order", <<g>>, order(ec, g))

IsValidEg ==
    /\ op = "init"
    /\ Call("is_valid_eg", <<ec.a, ec.b, ec.q>>, Ok(is_valid_eg(ec)))

ValidateCoffs ==
    /\ op = "init"
    /\ Call("validate_coffs", <<ec.a, ec.b, ec.q>>, Ok(validate_coffs(ec)))

Min(i, j) == IF i < j THEN i ELSE j

Gen ==
    /\ op = "init"
    /\ \E priv \in 1..Min(eg.n - 1, MaxPriv) : Call("gen", <<priv>>, Ok(gen(ec, eg, priv)))

\* enc2 under the public key just generated; args keeps priv for the later dec
Enc2 ==
    /\ op = "gen"
    /\ \E plain \in Points(ec), r \in 0..MaxR :
           Call("enc2", <<args[1], plain, res, r>>, Ok(enc2(ec, eg, plain, res, r)))

\* dec of the cipher just produced, with the private key of the key pair
Dec ==
    /\ op = "enc2"
    /\ Call("dec", args, Ok(dec(ec, eg, res, args[1])))

MapToPointKoblitz ==
    /\ op = "init"
    /\ \E m \in 0..MaxM : Call("map_to_point_koblitz", <<m>>, map_to_point_koblitz(m, ec))

\* decrypt_message hands map_to_chars the x-coordinate of each point, as a
\* decimal string that int() reads back unchanged
MapToChars ==
    /\ op = "map_to_point_koblitz"
    /\ err = "none"
    /\ Call("map_to_chars", Append(args, res[1]), Ok(map_to_chars(res[1])))

(***************************************************************************)
(* Specifications                                                          *)
(***************************************************************************)
Next == At \/ Neg \/ Add \/ AddMore \/ Mul \/ Order

Spec == Init /\ [][Next]_vars

NextArith == Inv \/ Sqrt \/ At \/ IsValidEg \/ ValidateCoffs

SpecArith == Init /\ [][NextArith]_vars

NextElGamal == Gen \/ Enc2 \/ Dec

SpecElGamal == InitElGamal /\ [][NextElGamal]_vars

NextKoblitz == MapToPointKoblitz \/ MapToChars

SpecKoblitz == InitKoblitz /\ [][NextKoblitz]_vars

(***************************************************************************)
(* Properties                                                              *)
(***************************************************************************)
InRange(p) == p[1] \in 0..(ec.q - 1) /\ p[2] \in 0..(ec.q - 1)

OnCurve(p) == (p[2] * p[2]) % ec.q = (p[1] * p[1] * p[1] + ec.a * p[1] + ec.b) % ec.q

Residue(n, q) == \E y \in 0..(q - 1) : (y * y) % q = n

Gcd(n, q) ==
    CHOOSE d \in 1..q :
        /\ n % d = 0 /\ q % d = 0
        /\ \A e \in 1..q : (n % e = 0 /\ q % e = 0) => e <= d

Discriminant == (4 * ec.a * ec.a * ec.a + 27 * ec.b * ec.b) % ec.q

\* C1: on a non-singular curve, with a base point g whose order n was found,
\* decrypting with priv the pair that enc2 made of a valid plaintext point
\* (the identity included) under the public key gen(priv), priv in 1..n-1,
\* and any nonce r >= 0, returns the plaintext point.
ElGamalRoundTrip == op = "dec" => res = args[2]

ElGamalRoundTripWitness ==
    /\ op = "dec"
    /\ args[1] > 1
    /\ args[2] # zero
    /\ args[4] > eg.n
    /\ mul(ec, args[3], args[4]) # zero
    /\ res = args[2]

\* C2: on a non-singular curve, add is associative over the valid points,
\* the identity included: add(add(p1, p2), p3) = add(p1, add(p2, p3)).
AddAssociative ==
    (op = "add3" /\ is_valid_eg(ec)) =>
        res = add(ec, args[1], add(ec, args[2], args[3]))

\* the inner sum is a doubling and the outer sum takes it back to p1
AddAssociativeWitness ==
    /\ op = "add3"
    /\ is_valid_eg(ec)
    /\ args[1] = args[2]
    /\ args[1] # zero
    /\ args[1][2] # 0
    /\ args[3] = neg(ec, args[1])
    /\ res = args[1]

\* C3: on every curve, singular ones included, add is commutative, the
\* identity is neutral on both sides, and add(p, neg(p)) is the identity
\* (also for p with y = 0 and for p the identity).
AddCommutativeIdentityInverse ==
    op = "add" =>
        /\ res = add(ec, args[2], args[1])
        /\ (args[2] = zero => res = args[1])
        /\ (args[1] = zero => res = args[2])
        /\ (args[2] = neg(ec, args[1]) => res = zero)

\* a point of order two added to its own negation
AddCommutativeIdentityInverseWitness ==
    /\ op = "add"
    /\ args[1] # zero
    /\ args[1][2] = 0
    /\ args[2] = neg(ec, args[1])
    /\ res = zero

\* C4: mul(p, k) is the k-fold sum of p, built from the identity by add,
\* for every valid p and 0 <= k <= MaxK; mul(p, 0) is the identity and
\* mul(p, 1) is p.
MulIsRepeatedAdd ==
    op = "mul" =>
        /\ res = refmul(ec, args[1], args[2])
        /\ (args[2] = 0 => res = zero)
        /\ (args[2] = 1 => res = args[1])

\* a scalar of several bits, one below the order of p
MulIsRepeatedAddWitness ==
    /\ op = "mul"
    /\ args[1] # zero
    /\ args[2] >= 5
    /\ order(ec, args[1]).err = "none"
    /\ args[2] = order(ec, args[1]).val - 1
    /\ res = neg(ec, args[1])

\* C5: on every curve, the points at(x) returns are valid, in range, at x,
\* and each the neg of the other; neg, add and mul of valid points return a
\* point in range that is the identity or on the curve, and add returns
\* Coord(0,0) only for a point and its negation.
Closure ==
    /\ (op = "at" /\ err = "none") =>
           /\ res[1][1] = args[1] /\ res[2][1] = args[1]
           /\ InRange(res[1]) /\ InRange(res[2])
           /\ is_valid(ec, res[1]) /\ is_valid(ec, res[2])
           /\ neg(ec, res[1]) = res[2] /\ neg(ec, res[2]) = res[1]
    /\ (op \in {"neg", "add", "add3", "mul"}) =>
           /\ InRange(res)
           /\ is_valid(ec, res)
           /\ (res = zero \/ OnCurve(res))
    /\ (op = "add" /\ res = zero) => args[2] = neg(ec, args[1])

\* a chord through two distinct points of a singular curve
ClosureWitness ==
    /\ op = "add"
    /\ ~is_valid_eg(ec)
    /\ args[1] # zero /\ args[2] # zero
    /\ args[1][1] # args[2][1]
    /\ OnCurve(res)

\* C6: when order(g) returns k, k is in 1..q, mul(g, k) is the identity and
\* no smaller j >= 1 has mul(g, j) the identity; when it raises, no k in
\* 1..q has mul(g, k) the identity.
OrderIsSmallest ==
    op = "order" =>
        IF err = "none"
        THEN /\ res \in 1..ec.q
             /\ mul(ec, args[1], res) = zero
             /\ \A j \in 1..(res - 1) : mul(ec, args[1], j) # zero
        ELSE \A k \in 1..ec.q : mul(ec, args[1], k) # zero

\* the order is q itself, the last candidate of the scan
OrderIsSmallestWitness ==
    /\ op = "order"
    /\ err = "none"
    /\ res = ec.q

\* C7: a code point m with m*20 + 20 <= q that map_to_point_koblitz places
\* on the curve is what map_to_chars reads back from the point's x.
KoblitzRecovers ==
    (op = "map_to_chars" /\ args[1] * max_bits + max_bits <= ec.q) => res = args[1]

\* C8: sqrt(n, q) returns (i, q - i), both square roots of n, whenever n has
\* a square root in 0..q-1 (n = 0 included), and raises only when it has
\* none; at(x) raises only when x^3 + ax + b is a non-residue.
SqrtFindsEveryRoot ==
    /\ op = "sqrt" =>
           IF Residue(args[1], args[2])
           THEN /\ err = "none"
                /\ res[2] = args[2] - res[1]
                /\ (res[1] * res[1]) % args[2] = args[1]
                /\ (res[2] * res[2]) % args[2] = args[1]
           ELSE err = "not found"
    /\ op = "at" =>
           (err # "none" <=>
               ~Residue((args[1] * args[1] * args[1] + ec.a * args[1] + ec.b) % ec.q, ec.q))

\* C9: inv(n, q) returns s in 0..q-1 with n*s mod q = 1 when gcd(n, q) = 1,
\* and fails, returning no value, when gcd(n, q) # 1.
InvInvertsOrFails ==
    op = "inv" =>
        IF Gcd(args[1], args[2]) = 1
        THEN err = "none" /\ res \in 0..(args[2] - 1) /\ (args[1] * res) % args[2] = 1
        ELSE err # "none"

\* C10: validate_coffs reports bad coefficients exactly when
\* (4a^3 + 27b^2) mod q = 0, which is exactly when is_valid_eg is False.
SingularityChecksAgree ==
    op = "validate_coffs" =>
        /\ (res = "False" <=> Discriminant = 0)
        /\ (res = "False" <=> ~is_valid_eg(ec))

=============================================================================
